---- MODULE Spec2Model ----
(***************************************************************************)
(* The per-process virtual file descriptor table of the sandbox            *)
(* (sandbox/src/vfs/fdtable.rs): FdEntry, FdTableInner, FdTable and its    *)
(* operations, as a state machine.                                         *)
(*                                                                         *)
(* i32 is scaled down to IntMin..IntMax; the arithmetic keeps the width:   *)
(* `vfd + 1` at IntMax panics in a build with overflow checks and wraps    *)
(* to IntMin in a build without them.                                      *)
(***************************************************************************)
EXTENDS Integers, Sequences, FiniteSets, Bags, TLC

VARIABLES
    build,   \* "debug" (overflow checks on) or "release" (wrapping arithmetic)
    tabs,    \* the live FdTableInner objects, by Arc identity 1..Len(tabs)
    last,    \* the last completed call: operation, table, arguments, result
    fuel,    \* calls the behaviour is still followed for (negative: no limit)
    guard,   \* guard[i]: 0 when the Mutex of table i is free, else the holder
    hnd,     \* hnd[t]: the FdTable handle of thread t: the table its Arc points to
    pc       \* pc[t]: where thread t is inside a call

vars == <<build, tabs, last, fuel, guard, hnd, pc>>

----------------------------------------------------------------------------
(* Bounds of the model *)

\* i32::MAX, scaled down
IntMax == 5
\* i32::MIN
IntMin == (0 - IntMax) - 1
\* copies of one fd the free heap is followed up to
MaxCopies == 2
\* tables alive at once in the fork specification
MaxTables == 2
\* calls a behaviour of the edge and thread specifications is followed for
MaxOps == 3
\* calls a behaviour of the fair thread specification is followed for
MaxFairOps == 2

(* Program constants *)
STDIN_FILENO == 0
STDOUT_FILENO == 1
STDERR_FILENO == 2
FIRST_USER_FD == 3


----------------------------------------------------------------------------
(* Option<T> *)
None == << >>
Some(x) == <<x>>
IsSome(o) == Len(o) = 1
Unwrap(o) == o[1]

\* the last call that returned or panicked, and what it gave back
NoCall == [op |-> "new", by |-> 1, tbl |-> 1, ret |-> None, panicked |-> FALSE]
Call(op, t, i, r) ==
    [op |-> op, by |-> t, tbl |-> i, ret |-> r.ret, panicked |-> r.panicked]

(* FdEntry *)
Passthrough(k, f, p) ==
    [kind |-> "Passthrough", kernel_fd |-> k, file_ops |-> 0, flags |-> f, path |-> p]
Virtual(h, f, p) ==
    [kind |-> "Virtual", kernel_fd |-> 0, file_ops |-> h, flags |-> f, path |-> p]

\* an accessor that reads the kernel_fd slot of either variant
kernel_fd_Any(e) == Some(e.kernel_fd)

kernel_fd(e) == IF e.kind = "Passthrough" THEN Some(e.kernel_fd) ELSE None

flags(e) == e.flags
path(e) == e.path
file_ops(e) == IF e.kind = "Virtual" THEN Some(e.file_ops) ELSE None

StdEntry(k) == Passthrough(k, 0, None)

----------------------------------------------------------------------------
(* HashMap<i32, FdEntry>: a function whose domain is the set of keys *)
contains_key(m, k) == k \in DOMAIN m
MapGet(m, k) == IF k \in DOMAIN m THEN Some(m[k]) ELSE None
MapInsert(m, k, v) == [x \in (DOMAIN m) \cup {k} |-> IF x = k THEN v ELSE m[x]]
MapRemove(m, k) == [x \in (DOMAIN m) \ {k} |-> m[x]]

(* BinaryHeap<Reverse<i32>>: a multiset of fds; pop takes the smallest *)
HeapPush(h, fd) == h (+) SetToBag({fd})

\* a heap ordered the wrong way round: the largest member first
HeapPeek_Max(h) == CHOOSE m \in BagToSet(h) : \A x \in BagToSet(h) : m >= x

HeapPeek(h) == CHOOSE m \in BagToSet(h) : \A x \in BagToSet(h) : m <= x

HeapPop(h) == h (-) SetToBag({HeapPeek(h)})
HeapRemove(h, vfd) == [x \in (DOMAIN h) \ {vfd} |-> h[x]]
HeapIsEmpty(h) == BagToSet(h) = {}

SetMin(S) == CHOOSE m \in S : \A x \in S : m <= x

\* a gap loop that starts at the first user descriptor instead of next_vfd
PushGaps_FromFirst(entries, free, from, to) ==
    free (+) SetToBag({fd \in FIRST_USER_FD..(to - 1) : ~contains_key(entries, fd)})

\* the `while fd < vfd` loop of allocate_min and allocate_at
PushGaps(entries, free, from, to) ==
    free (+) SetToBag({fd \in from..(to - 1) :
                          fd >= FIRST_USER_FD /\ ~contains_key(entries, fd)})

----------------------------------------------------------------------------
(* FdTableInner and the operations, as functions of the inner state.       *)
(* Each returns [inner, ret, panicked]; a panic leaves the inner state as  *)
(* the code had written it so far and poisons the Mutex.                   *)

Inner(e, n, f, p) == [entries |-> e, next_vfd |-> n, free_fds |-> f, poisoned |-> p]

Returned(inner, r) == [inner |-> inner, ret |-> r, panicked |-> FALSE]
Panicked(inner) ==
    [inner |-> [inner EXCEPT !.poisoned = TRUE], ret |-> None, panicked |-> TRUE]

\* a table built without the stderr entry
new_NoStderr ==
    Inner((STDIN_FILENO :> StdEntry(STDIN_FILENO)) @@ (STDOUT_FILENO :> StdEntry(STDOUT_FILENO)),
          FIRST_USER_FD, EmptyBag, FALSE)

\* a table whose high-water mark starts one above the first user descriptor
new_NextFour ==
    Inner((STDIN_FILENO :> StdEntry(STDIN_FILENO))
            @@ (STDOUT_FILENO :> StdEntry(STDOUT_FILENO))
            @@ (STDERR_FILENO :> StdEntry(STDERR_FILENO)),
          FIRST_USER_FD + 1, EmptyBag, FALSE)

new ==
    Inner((STDIN_FILENO :> StdEntry(STDIN_FILENO))
            @@ (STDOUT_FILENO :> StdEntry(STDOUT_FILENO))
            @@ (STDERR_FILENO :> StdEntry(STDERR_FILENO)),
          FIRST_USER_FD, EmptyBag, FALSE)

\* a copy that starts with an empty free list
deep_clone_NoFree(inner) == Inner(inner.entries, inner.next_vfd, EmptyBag, FALSE)

deep_clone(inner) == Inner(inner.entries, inner.next_vfd, inner.free_fds, FALSE)

\* an allocate that hands out the smallest free descriptor and leaves it on
\* the free list
allocate_NoPop(inner, entry) ==
    IF ~HeapIsEmpty(inner.free_fds)
    THEN Returned([inner EXCEPT
                      !.entries = MapInsert(inner.entries, HeapPeek(inner.free_fds), entry)],
                  Some(HeapPeek(inner.free_fds)))
    ELSE IF inner.next_vfd = IntMax
    THEN Panicked(inner)
    ELSE Returned([inner EXCEPT !.next_vfd = inner.next_vfd + 1,
                                !.entries = MapInsert(inner.entries, inner.next_vfd, entry)],
                  Some(inner.next_vfd))

allocate(inner, entry) ==
    IF ~HeapIsEmpty(inner.free_fds)
    THEN LET vfd == HeapPeek(inner.free_fds) IN
         Returned([inner EXCEPT !.free_fds = HeapPop(inner.free_fds),
                                !.entries = MapInsert(inner.entries, vfd, entry)],
                  Some(vfd))
    ELSE IF inner.next_vfd = IntMax
    THEN LET gaps == {fd \in FIRST_USER_FD..(IntMax - 1) :
                         ~contains_key(inner.entries, fd)} IN
         IF gaps = {}
         THEN Panicked(inner)
         ELSE Returned([inner EXCEPT
                           !.entries = MapInsert(inner.entries, SetMin(gaps), entry)],
                       Some(SetMin(gaps)))
    ELSE Returned([inner EXCEPT !.next_vfd = inner.next_vfd + 1,
                                !.entries = MapInsert(inner.entries, inner.next_vfd, entry)],
                  Some(inner.next_vfd))

\* the version that skips ahead without recording the gaps as free
allocate_min_NoGaps(inner, min_vfd, entry) ==
    LET cand == {fd \in min_vfd..(IntMax - 1) : ~contains_key(inner.entries, fd)} IN
    IF cand = {}
    THEN Panicked(inner)
    ELSE LET vfd == SetMin(cand)
             next1 == IF vfd >= inner.next_vfd THEN vfd + 1 ELSE inner.next_vfd
         IN Returned(Inner(MapInsert(inner.entries, vfd, entry), next1,
                           HeapRemove(inner.free_fds, vfd), inner.poisoned),
                     Some(vfd))

allocate_min(inner, min_vfd, entry) ==
    LET cand == {fd \in min_vfd..(IntMax - 1) : ~contains_key(inner.entries, fd)} IN
    IF cand = {}
    THEN Panicked(inner)
    ELSE LET vfd == SetMin(cand)
             skipped == vfd >= inner.next_vfd
             free1 == IF skipped
                      THEN PushGaps(inner.entries, inner.free_fds, inner.next_vfd, vfd)
                      ELSE inner.free_fds
             next1 == IF skipped THEN vfd + 1 ELSE inner.next_vfd
         IN Returned(Inner(MapInsert(inner.entries, vfd, entry), next1,
                           HeapRemove(free1, vfd), inner.poisoned),
                     Some(vfd))

allocate_at(inner, vfd, entry, bld) ==
    LET free1 == HeapRemove(inner.free_fds, vfd)
        skipped == vfd >= inner.next_vfd
        free2 == IF skipped
                 THEN PushGaps(inner.entries, free1, inner.next_vfd, vfd)
                 ELSE free1
    IN IF skipped /\ vfd = IntMax /\ bld = "debug"
       THEN Panicked([inner EXCEPT !.free_fds = free2])
       ELSE LET next1 == IF ~skipped THEN inner.next_vfd
                         ELSE IF vfd = IntMax THEN IntMin ELSE vfd + 1
            IN Returned(Inner(MapInsert(inner.entries, vfd, entry), next1, free2,
                              inner.poisoned),
                        MapGet(inner.entries, vfd))

translate(inner, vfd) ==
    IF contains_key(inner.entries, vfd) THEN kernel_fd(inner.entries[vfd]) ELSE None

get(inner, vfd) == MapGet(inner.entries, vfd)

\* a deallocate that puts every freed descriptor on the free list
deallocate_StdToFree(inner, vfd) ==
    IF ~contains_key(inner.entries, vfd)
    THEN Returned(inner, None)
    ELSE Returned([inner EXCEPT
                      !.entries = MapRemove(inner.entries, vfd),
                      !.free_fds = HeapPush(inner.free_fds, vfd)],
                  Some(inner.entries[vfd]))

\* a deallocate that forgets the descriptor instead of freeing it for reuse
deallocate_NoReuse(inner, vfd) ==
    IF ~contains_key(inner.entries, vfd)
    THEN Returned(inner, None)
    ELSE Returned([inner EXCEPT !.entries = MapRemove(inner.entries, vfd)],
                  Some(inner.entries[vfd]))

\* a deallocate that frees the number without asking whether it was mapped
deallocate_PushAbsent(inner, vfd) ==
    Returned([inner EXCEPT
                 !.entries = MapRemove(inner.entries, vfd),
                 !.free_fds = IF vfd >= FIRST_USER_FD
                              THEN HeapPush(inner.free_fds, vfd)
                              ELSE inner.free_fds],
             MapGet(inner.entries, vfd))

deallocate(inner, vfd) ==
    IF ~contains_key(inner.entries, vfd)
    THEN Returned(inner, None)
    ELSE Returned([inner EXCEPT
                      !.entries = MapRemove(inner.entries, vfd),
                      !.free_fds = IF vfd >= FIRST_USER_FD
                                   THEN HeapPush(inner.free_fds, vfd)
                                   ELSE inner.free_fds],
                  Some(inner.entries[vfd]))

\* duplicate and duplicate_at with no other caller in between their two locks
duplicate(inner, old_vfd) ==
    IF get(inner, old_vfd) = None
    THEN Returned(inner, None)
    ELSE allocate(inner, Unwrap(get(inner, old_vfd)))

\* a dup2 that clears new_vfd from the free list before it looks up old_vfd
duplicate_at_FilterFirst(inner, old_vfd, new_vfd, bld) ==
    IF get(inner, old_vfd) = None
    THEN Returned([inner EXCEPT !.free_fds = HeapRemove(inner.free_fds, new_vfd)], None)
    ELSE allocate_at(inner, new_vfd, Unwrap(get(inner, old_vfd)), bld)

\* a dup2 that installs the copy without the bookkeeping of allocate_at
duplicate_at_InsertOnly(inner, old_vfd, new_vfd, bld) ==
    IF get(inner, old_vfd) = None
    THEN Returned(inner, None)
    ELSE Returned([inner EXCEPT !.entries = MapInsert(inner.entries, new_vfd,
                                                      Unwrap(get(inner, old_vfd)))],
                  MapGet(inner.entries, new_vfd))

duplicate_at(inner, old_vfd, new_vfd, bld) ==
    IF get(inner, old_vfd) = None
    THEN Returned(inner, None)
    ELSE allocate_at(inner, new_vfd, Unwrap(get(inner, old_vfd)), bld)

\* impl Debug: `self.inner.lock().unwrap()` panics on a poisoned Mutex;
\* otherwise the three counts are formatted
fmt(inner) ==
    IF inner.poisoned
    THEN Panicked(inner)
    ELSE Returned(inner, Some([entry_count |-> Cardinality(DOMAIN inner.entries),
                               next_vfd |-> inner.next_vfd,
                               free_fds_count |-> BagCardinality(inner.free_fds)]))

----------------------------------------------------------------------------
(* Inputs *)

\* entries the collaborators hand in
EntryArgs == {Passthrough(100, 0, None), Virtual(7, 1, Some("/f"))}
\* descriptor numbers of ordinary use: a standard one and the user range
VfdArgs == {STDIN_FILENO} \cup (FIRST_USER_FD..(IntMax - 1))
\* with a negative number, the last standard one and the ceiling i32::MAX
EdgeArgs == {0 - 1, STDIN_FILENO, STDERR_FILENO} \cup (FIRST_USER_FD..IntMax)

Threads == {1, 2}

\* the free heap is followed while no fd has more than MaxCopies copies in it
HeapBounded(inner) == \A x \in DOMAIN inner.free_fds : inner.free_fds[x] <= MaxCopies

Tables == 1..Len(tabs)

Idle == [at |-> "idle", outer |-> "", op |-> "", a |-> 0, b |-> 0, e |-> None]

InitWith(f) ==
    /\ build \in {"debug", "release"}
    /\ tabs = <<new>>
    /\ last = NoCall
    /\ fuel = f
    /\ guard = <<0>>
    /\ hnd = [t \in Threads |-> [tbl |-> 1, cls |-> 1]]
    /\ pc = [t \in Threads |-> Idle]

Init == InitWith(0 - 1)

----------------------------------------------------------------------------
(* One caller at a time: a call runs from its lock to its return with no   *)
(* other call in between.                                                  *)

Commit(i, r, op) ==
    /\ fuel # 0
    /\ HeapBounded(r.inner)
    /\ tabs' = [tabs EXCEPT ![i] = r.inner]
    /\ last' = Call(op, 1, i, r)
    /\ fuel' = IF fuel < 0 THEN fuel ELSE fuel - 1
    /\ UNCHANGED <<build, guard, hnd, pc>>

Allocate(i, e) == Commit(i, allocate(tabs[i], e), "allocate")

AllocateMin(i, m, e) == Commit(i, allocate_min(tabs[i], m, e), "allocate_min")

AllocateAt(i, v, e) == Commit(i, allocate_at(tabs[i], v, e, build), "allocate_at")

Translate(i, v) == Commit(i, Returned(tabs[i], translate(tabs[i], v)), "translate")

\* a get that moves the entry out of the table instead of cloning it
Get_Take(i, v) == Commit(i, deallocate(tabs[i], v), "get")

Get(i, v) == Commit(i, Returned(tabs[i], get(tabs[i], v)), "get")

Deallocate(i, v) == Commit(i, deallocate(tabs[i], v), "deallocate")

Duplicate(i, old) == Commit(i, duplicate(tabs[i], old), "duplicate")

DuplicateAt(i, old, nw) == Commit(i, duplicate_at(tabs[i], old, nw, build), "duplicate_at")

Fmt(i) == Commit(i, fmt(tabs[i]), "fmt")

Next ==
    \/ \E i \in Tables, e \in EntryArgs : Allocate(i, e)
    \/ \E i \in Tables, m \in VfdArgs, e \in EntryArgs : AllocateMin(i, m, e)
    \/ \E i \in Tables, v \in VfdArgs, e \in EntryArgs : AllocateAt(i, v, e)
    \/ \E i \in Tables, v \in VfdArgs : Translate(i, v)
    \/ \E i \in Tables, v \in VfdArgs : Get(i, v)
    \/ \E i \in Tables, v \in VfdArgs : Deallocate(i, v)
    \/ \E i \in Tables, v \in VfdArgs : Duplicate(i, v)
    \/ \E i \in Tables, v \in VfdArgs, w \in VfdArgs : DuplicateAt(i, v, w)
    \/ \E i \in Tables : Fmt(i)

Spec == Init /\ [][Next]_vars

(* The same calls with the edge arguments, followed for MaxOps calls *)
InitEdge == InitWith(MaxOps)

NextEdge ==
    \/ \E i \in Tables, e \in EntryArgs : Allocate(i, e)
    \/ \E i \in Tables, m \in EdgeArgs, e \in EntryArgs : AllocateMin(i, m, e)
    \/ \E i \in Tables, v \in EdgeArgs, e \in EntryArgs : AllocateAt(i, v, e)
    \/ \E i \in Tables, v \in EdgeArgs : Translate(i, v)
    \/ \E i \in Tables, v \in EdgeArgs : Get(i, v)
    \/ \E i \in Tables, v \in EdgeArgs : Deallocate(i, v)
    \/ \E i \in Tables, v \in EdgeArgs : Duplicate(i, v)
    \/ \E i \in Tables, v \in EdgeArgs, w \in EdgeArgs : DuplicateAt(i, v, w)

SpecEdge == InitEdge /\ [][NextEdge]_vars

----------------------------------------------------------------------------
(* Threads of the sandbox calling into tables through their handles. A     *)
(* step is what one thread does under one acquisition of the Mutex:        *)
(* `self.inner.lock()` and then the body up to the drop of the guard.      *)
(* duplicate and duplicate_at lock twice: in get, and again in allocate or *)
(* allocate_at.                                                            *)

\* arguments of the threads' calls
ThreadVfds == {FIRST_USER_FD, FIRST_USER_FD + 1}

\* the method whose lock a call takes first
FirstOp(outer) == IF outer \in {"duplicate", "duplicate_at"} THEN "get" ELSE outer

TableOf(t) == hnd[t].tbl

\* deep_clone calls that have not returned yet
Cloning == Cardinality({t \in Threads : pc[t].outer = "deep_clone"})

\* thread u is the child of a fork whose deep_clone has not returned: it
\* starts running when it has its table
Forked(u) == \E t \in Threads : pc[t].outer = "deep_clone" /\ pc[t].b = u

\* self.inner.lock(): blocks while another thread holds the guard; a
\* poisoned guard is taken as it is
Lock(t, outer, a, b, e) ==
    /\ pc[t] = Idle
    /\ ~Forked(t)
    /\ fuel # 0
    /\ fuel' = IF fuel < 0 THEN fuel ELSE fuel - 1
    /\ guard[TableOf(t)] = 0
    /\ guard' = [guard EXCEPT ![TableOf(t)] = t]
    /\ pc' = [pc EXCEPT ![t] = [at |-> "locked", outer |-> outer, op |-> FirstOp(outer),
                                a |-> a, b |-> b, e |-> e]]
    /\ UNCHANGED <<build, tabs, last, hnd>>

\* the second lock of duplicate and duplicate_at
Relock(t) ==
    /\ pc[t].at = "unlocked"
    /\ guard[TableOf(t)] = 0
    /\ guard' = [guard EXCEPT ![TableOf(t)] = t]
    /\ pc' = [pc EXCEPT ![t].at = "locked"]
    /\ UNCHANGED <<build, tabs, last, fuel, hnd>>

\* the body ran to its return (or its panic) and the guard is dropped
Finish(t, r) ==
    /\ HeapBounded(r.inner)
    /\ tabs' = [tabs EXCEPT ![TableOf(t)] = r.inner]
    /\ guard' = [guard EXCEPT ![TableOf(t)] = 0]
    /\ last' = Call(pc[t].outer, t, TableOf(t), r)
    /\ pc' = [pc EXCEPT ![t] = Idle]
    /\ UNCHANGED <<build, fuel, hnd>>

Held(t, op) == pc[t].at = "locked" /\ pc[t].op = op /\ guard[TableOf(t)] = t

LockedAllocate(t) ==
    /\ Held(t, "allocate")
    /\ Finish(t, allocate(tabs[TableOf(t)], Unwrap(pc[t].e)))

LockedAllocateMin(t) ==
    /\ Held(t, "allocate_min")
    /\ Finish(t, allocate_min(tabs[TableOf(t)], pc[t].a, Unwrap(pc[t].e)))

LockedAllocateAt(t) ==
    /\ Held(t, "allocate_at")
    /\ Finish(t, allocate_at(tabs[TableOf(t)],
                             IF pc[t].outer = "duplicate_at" THEN pc[t].b ELSE pc[t].a,
                             Unwrap(pc[t].e), build))

LockedTranslate(t) ==
    /\ Held(t, "translate")
    /\ Finish(t, Returned(tabs[TableOf(t)], translate(tabs[TableOf(t)], pc[t].a)))

LockedDeallocate(t) ==
    /\ Held(t, "deallocate")
    /\ Finish(t, deallocate(tabs[TableOf(t)], pc[t].a))

\* get, as a call of its own or as the first half of duplicate / duplicate_at:
\* `let entry = self.get(old_vfd)?;` returns None at once, else goes on to
\* allocate / allocate_at with the guard dropped in between
\* a get whose guard is still held when duplicate goes on to lock again
LockedGet_KeepGuard(t) ==
    /\ Held(t, "get")
    /\ LET found == get(tabs[TableOf(t)], pc[t].a) IN
       IF pc[t].outer = "get" \/ found = None
       THEN Finish(t, Returned(tabs[TableOf(t)], found))
       ELSE /\ pc' = [pc EXCEPT ![t].at = "unlocked",
                                ![t].op = IF pc[t].outer = "duplicate"
                                          THEN "allocate" ELSE "allocate_at",
                                ![t].e = found]
            /\ UNCHANGED <<build, tabs, last, fuel, hnd, guard>>

LockedGet(t) ==
    /\ Held(t, "get")
    /\ LET found == get(tabs[TableOf(t)], pc[t].a) IN
       IF pc[t].outer = "get" \/ found = None
       THEN Finish(t, Returned(tabs[TableOf(t)], found))
       ELSE /\ guard' = [guard EXCEPT ![TableOf(t)] = 0]
            /\ pc' = [pc EXCEPT ![t].at = "unlocked",
                                ![t].op = IF pc[t].outer = "duplicate"
                                          THEN "allocate" ELSE "allocate_at",
                                ![t].e = found]
            /\ UNCHANGED <<build, tabs, last, fuel, hnd>>

\* a fork that hands the child the parent's table instead of a copy
LockedDeepClone_Alias(t) ==
    /\ Held(t, "deep_clone")
    /\ pc[pc[t].b] = Idle
    /\ guard' = [guard EXCEPT ![TableOf(t)] = 0]
    /\ hnd' = [hnd EXCEPT ![pc[t].b] = [tbl |-> TableOf(t), cls |-> hnd[t].cls + 1]]
    /\ last' = Call("deep_clone", t, TableOf(t), Returned(tabs[TableOf(t)], None))
    /\ pc' = [pc EXCEPT ![t] = Idle]
    /\ UNCHANGED <<build, tabs, fuel>>

\* deep_clone on fork/clone: the copy is a new table, handed to thread u
LockedDeepClone(t) ==
    /\ Held(t, "deep_clone")
    /\ pc[pc[t].b] = Idle
    /\ tabs' = Append(tabs, deep_clone(tabs[TableOf(t)]))
    /\ guard' = Append([guard EXCEPT ![TableOf(t)] = 0], 0)
    /\ hnd' = [hnd EXCEPT ![pc[t].b] = [tbl |-> Len(tabs) + 1, cls |-> Len(tabs) + 1]]
    /\ last' = Call("deep_clone", t, TableOf(t), Returned(tabs[TableOf(t)], None))
    /\ pc' = [pc EXCEPT ![t] = Idle]
    /\ UNCHANGED <<build, fuel>>

\* a Clone that copies the inner state instead of sharing it
ShallowClone_Copy(t, u) ==
    /\ t # u
    /\ pc[t] = Idle
    /\ pc[u] = Idle
    /\ Len(tabs) < MaxTables
    /\ tabs' = Append(tabs, tabs[TableOf(t)])
    /\ guard' = Append(guard, 0)
    /\ hnd' = [hnd EXCEPT ![u] = [tbl |-> Len(tabs) + 1, cls |-> hnd[t].cls]]
    /\ UNCHANGED <<build, last, fuel, pc>>

\* #[derive(Clone)] on FdTable: Arc::clone, the same table and the same Mutex
ShallowClone(t, u) ==
    /\ t # u
    /\ pc[t] = Idle
    /\ pc[u] = Idle
    /\ hnd' = [hnd EXCEPT ![u] = hnd[t]]
    /\ UNCHANGED <<build, tabs, last, fuel, guard, pc>>

NextThreads ==
    \/ \E t \in Threads, e \in EntryArgs : Lock(t, "allocate", 0, 0, Some(e))
    \/ \E t \in Threads, m \in ThreadVfds, e \in EntryArgs :
          Lock(t, "allocate_min", m, 0, Some(e))
    \/ \E t \in Threads, v \in ThreadVfds, e \in EntryArgs :
          Lock(t, "allocate_at", v, 0, Some(e))
    \/ \E t \in Threads, v \in ThreadVfds : Lock(t, "translate", v, 0, None)
    \/ \E t \in Threads, v \in ThreadVfds : Lock(t, "get", v, 0, None)
    \/ \E t \in Threads, v \in ThreadVfds : Lock(t, "deallocate", v, 0, None)
    \/ \E t \in Threads, v \in ThreadVfds : Lock(t, "duplicate", v, 0, None)
    \/ \E t \in Threads, v \in ThreadVfds, w \in ThreadVfds :
          Lock(t, "duplicate_at", v, w, None)
    \/ \E t \in Threads : \E u \in Threads \ {t} :
          /\ Len(tabs) + Cloning < MaxTables
          /\ pc[u] = Idle
          /\ Lock(t, "deep_clone", 0, u, None)
    \/ \E t \in Threads : Relock(t)
    \/ \E t \in Threads : LockedAllocate(t)
    \/ \E t \in Threads : LockedAllocateMin(t)
    \/ \E t \in Threads : LockedAllocateAt(t)
    \/ \E t \in Threads : LockedTranslate(t)
    \/ \E t \in Threads : LockedGet(t)
    \/ \E t \in Threads : LockedDeallocate(t)
    \/ \E t \in Threads : LockedDeepClone(t)
    \/ \E t \in Threads, u \in Threads : ShallowClone(t, u)

(* followed for MaxOps calls *)
SpecThreads == InitWith(MaxOps) /\ [][NextThreads]_vars

(* Fair scheduling: a thread that holds the guard runs its body to the     *)
(* return, and a thread blocked in lock() gets the Mutex once it stays     *)
(* free. Each of these steps changes pc.                                   *)
FairThreads ==
    \A t \in Threads :
        /\ WF_pc(Relock(t))
        /\ WF_pc(LockedAllocate(t))
        /\ WF_pc(LockedAllocateMin(t))
        /\ WF_pc(LockedAllocateAt(t))
        /\ WF_pc(LockedTranslate(t))
        /\ WF_pc(LockedGet(t))
        /\ WF_pc(LockedDeallocate(t))
        /\ WF_pc(LockedDeepClone(t))

(* followed for MaxFairOps calls *)
SpecThreadsFair == InitWith(MaxFairOps) /\ [][NextThreads]_vars /\ FairThreads

----------------------------------------------------------------------------
(* The reference model of the replay harness (repro::lowest_available and  *)
(* repro::lowest_available_min), over the set of allocated descriptors.    *)
(* None stands for its "fd overflow" panic.                                *)

Max(a, b) == IF a >= b THEN a ELSE b

lowest_available(allocated) ==
    LET c == {fd \in FIRST_USER_FD..IntMax : fd \notin allocated} IN
    IF c = {} THEN None ELSE Some(SetMin(c))

lowest_available_min(allocated, min_fd) ==
    LET c == {fd \in Max(FIRST_USER_FD, min_fd)..IntMax : fd \notin allocated} IN
    IF c = {} THEN None ELSE Some(SetMin(c))

\* what a caller can see of a table: the results of translate and get, and
\* of the next allocate and allocate_min
Outcome(r) == <<r.ret, r.panicked>>
Observable(inner) ==
    [translate |-> [v \in EdgeArgs |-> translate(inner, v)],
     get |-> [v \in EdgeArgs |-> get(inner, v)],
     allocate |-> [e \in EntryArgs |-> Outcome(allocate(inner, e))],
     allocate_min |-> [m \in EdgeArgs |-> Outcome(allocate_min(inner, m, StdEntry(0)))]]

Keys(inner) == DOMAIN inner.entries
StdKeys == {STDIN_FILENO, STDOUT_FILENO, STDERR_FILENO}

----------------------------------------------------------------------------
(* C1: in every reachable state allocate(entry), when it returns, returns  *)
(* the smallest v >= 3 that is not in the mapping and the mapping then     *)
(* holds entry at v.                                                       *)
C1_AllocateLowest ==
    \A i \in Tables, e \in EntryArgs :
        LET r == allocate(tabs[i], e) IN
        ~r.panicked =>
            /\ r.ret = lowest_available(Keys(tabs[i]))
            /\ MapGet(r.inner.entries, Unwrap(r.ret)) = Some(e)

(* C2: in every reachable state and for every min, allocate_min(min,       *)
(* entry), when it returns, returns the smallest v >= max(3, min) that is  *)
(* not in the mapping and installs entry there; allocate_min(2, e) gives   *)
(* the same VFD and the same table as allocate_min(3, e).                  *)
C2_AllocateMinFloor ==
    \A i \in Tables, m \in EdgeArgs, e \in EntryArgs :
        LET r == allocate_min(tabs[i], m, e) IN
        /\ ~r.panicked =>
              /\ r.ret = lowest_available_min(Keys(tabs[i]), m)
              /\ MapGet(r.inner.entries, Unwrap(r.ret)) = Some(e)
        /\ m = STDERR_FILENO => r = allocate_min(tabs[i], FIRST_USER_FD, e)

(* C3, as claimed: in every reachable state keys 0, 1 and 2 are in the     *)
(* mapping, each with a passthrough entry of kernel_fd = key, flags 0 and  *)
(* no path.                                                                *)
C3_StdAlwaysPresent ==
    \A i \in Tables, k \in StdKeys : MapGet(tabs[i].entries, k) = Some(StdEntry(k))

(* C3, amended: new() installs the three standard entries, and the entry   *)
(* at a key k of {0, 1, 2} changes or disappears only in a step that is    *)
(* deallocate(k) (which returns the entry and leaves k absent),            *)
(* allocate_at(k, _) or duplicate_at(_, k) (which return the entry that    *)
(* was at k and leave k present), or an allocation that returns k.         *)
StdStep(k) ==
    LET i == last'.tbl
        before == MapGet(tabs[i].entries, k)
        after == MapGet(tabs'[i].entries, k)
    IN after # before =>
          \/ /\ last'.op = "deallocate"
             /\ last'.ret = before
             /\ after = None
          \/ /\ last'.op \in {"allocate_at", "duplicate_at"}
             /\ last'.ret = before
             /\ IsSome(after)
          \/ /\ last'.op \in {"allocate", "allocate_min", "duplicate"}
             /\ last'.ret = Some(k)
             /\ IsSome(after)

C3_StdKeptUnlessTargeted ==
    /\ \A k \in StdKeys : MapGet(tabs[1].entries, k) = Some(StdEntry(k))
    /\ [][\A k \in StdKeys : StdStep(k)]_vars

\* stdin has been deallocated, stderr is still the standard entry, and an
\* allocate_at elsewhere has just overwritten an entry
C3_Witness ==
    /\ last.op = "allocate_at"
    /\ IsSome(last.ret)
    /\ ~contains_key(tabs[1].entries, STDIN_FILENO)
    /\ MapGet(tabs[1].entries, STDERR_FILENO) = Some(StdEntry(STDERR_FILENO))

(* C4: a call holds the guard from its read of the table to its write: no  *)
(* other thread's operation changes the table of a thread that is between  *)
(* the lookup and the install of its duplicate or duplicate_at.            *)
C4_NoOpBetweenReadAndWrite ==
    [][\A t \in Threads :
          (pc[t].at = "unlocked" /\ pc'[t] = pc[t])
              => tabs'[TableOf(t)] = tabs[TableOf(t)]]_vars

(* C5: a step taken through one handle leaves what can be observed through *)
(* every handle on the other side of a deep_clone unchanged.               *)
C5_DeepCloneIndependent ==
    [][\A t \in Threads, u \in Threads :
          (/\ pc[t].at = "locked"
           /\ pc'[t] # pc[t]
           /\ hnd[t].cls # hnd[u].cls
           /\ hnd'[u] = hnd[u])
              => Observable(tabs'[TableOf(u)]) = Observable(tabs[TableOf(u)])]_vars

\* a table and its deep clone have gone different ways: the last call
\* allocated in the clone, and the original does not hold that descriptor
C5_Witness ==
    /\ Len(tabs) = 2
    /\ last.op = "allocate"
    /\ last.tbl = 2
    /\ hnd[1].cls # hnd[2].cls
    /\ Keys(tabs[1]) # Keys(tabs[2])

(* C6: when deep_clone returns, the new table's mapping, next_vfd and free *)
(* set are the receiver's as they were when the call took the guard, the   *)
(* two tables give the same results to the same next call, and the         *)
(* receiver is unchanged.                                                  *)
C6_DeepCloneSnapshot ==
    [][Len(tabs') > Len(tabs) =>
          LET src == last'.tbl
              cl == tabs'[Len(tabs')]
          IN /\ last'.op = "deep_clone"
             /\ cl.entries = tabs[src].entries
             /\ cl.next_vfd = tabs[src].next_vfd
             /\ cl.free_fds = tabs[src].free_fds
             /\ Observable(cl) = Observable(tabs[src])
             /\ tabs'[src] = tabs[src]]_vars

\* deep_clone has just returned the copy of a table with a freed descriptor
C6_Witness ==
    /\ last.op = "deep_clone"
    /\ Len(tabs) = 2
    /\ ~HeapIsEmpty(tabs[2].free_fds)
    /\ tabs[2].free_fds = tabs[1].free_fds

(* C7: handles that are shallow clones of one another show the same table  *)
(* (what one wrote, the other observes), and no two of them are inside the *)
(* guard at once.                                                          *)
C7_ShallowCloneAliases ==
    \A t \in Threads, u \in Threads :
        (t # u /\ hnd[t].cls = hnd[u].cls) =>
            /\ \/ TableOf(t) = TableOf(u)
               \/ Observable(tabs[TableOf(t)]) = Observable(tabs[TableOf(u)])
            /\ ~(pc[t].at = "locked" /\ pc[u].at = "locked")

\* after a fork, thread 1 took a shallow clone of thread 2's handle and
\* allocated through it; thread 2's handle shows the new descriptor
C7_Witness ==
    /\ hnd[1].cls = 2
    /\ hnd[2].cls = 2
    /\ last.op = "allocate"
    /\ last.by = 1
    /\ IsSome(get(tabs[TableOf(2)], Unwrap(last.ret)))
    /\ Keys(tabs[1]) # Keys(tabs[2])

(* C8: when allocate_at(v, e) or allocate_min(min, e) installs at a VFD    *)
(* v >= next_vfd and returns, every g >= 3 of [next_vfd, v) that was not   *)
(* in the mapping is in the free set, next_vfd is v + 1, and the next      *)
(* allocate returns the smallest of those gaps.                            *)
GapsBelow(inner, v) ==
    {g \in inner.next_vfd..(v - 1) : g >= FIRST_USER_FD /\ ~contains_key(inner.entries, g)}

Repopulated(before, after, v) ==
    v >= before.next_vfd =>
        /\ \A g \in GapsBelow(before, v) : BagIn(g, after.free_fds)
        /\ after.next_vfd = v + 1
        /\ GapsBelow(before, v) # {} =>
              \A e \in EntryArgs :
                  LET n == allocate(after, e) IN
                  ~n.panicked /\ Unwrap(n.ret) <= SetMin(GapsBelow(before, v))

C8_GapRepopulation ==
    \A i \in Tables, e \in EntryArgs :
        /\ \A v \in EdgeArgs :
              LET r == allocate_at(tabs[i], v, e, build) IN
              ~r.panicked => Repopulated(tabs[i], r.inner, v)
        /\ \A m \in EdgeArgs :
              LET r == allocate_min(tabs[i], m, e) IN
              ~r.panicked => Repopulated(tabs[i], r.inner, Unwrap(r.ret))

(* C9: in every reachable state allocate_at(v, e) installs e at v,         *)
(* returns the entry that was at v (none if v was absent), leaves v out of *)
(* the free set and leaves every other key of the mapping with its entry.  *)
C9_AllocateAtFrame ==
    \A i \in Tables, v \in EdgeArgs, e \in EntryArgs :
        LET r == allocate_at(tabs[i], v, e, build) IN
        /\ ~r.panicked
        /\ MapGet(r.inner.entries, v) = Some(e)
        /\ r.ret = MapGet(tabs[i].entries, v)
        /\ ~BagIn(v, r.inner.free_fds)
        /\ Keys(r.inner) = Keys(tabs[i]) \cup {v}
        /\ \A k \in Keys(tabs[i]) \ {v} : r.inner.entries[k] = tabs[i].entries[k]

(* C10: in every reachable state no VFD is both a key of the mapping and a *)
(* member of the free set.                                                 *)
C10_MappingFreeDisjoint ==
    \A i \in Tables : Keys(tabs[i]) \cap BagToSet(tabs[i].free_fds) = {}

----------------------------------------------------------------------------
Free(inner) == BagToSet(inner.free_fds)

(* C11: in every reachable state every VFD v with 3 <= v < next_vfd is in  *)
(* exactly one of the mapping and the free set.                            *)
C11_BelowNextRecorded ==
    \A i \in Tables :
        \A v \in FIRST_USER_FD..(tabs[i].next_vfd - 1) :
            (v \in Keys(tabs[i])) # (v \in Free(tabs[i]))

(* C12: in every reachable state every member of the free set is >= 3.     *)
C12_FreeAboveStd ==
    \A i \in Tables : \A v \in Free(tabs[i]) : v >= FIRST_USER_FD

\* stdin has just been deallocated, a user descriptor was freed before it,
\* and the free set holds the user descriptor only
C12_Witness ==
    /\ last.op = "deallocate"
    /\ last.ret = Some(StdEntry(STDIN_FILENO))
    /\ Free(tabs[1]) = {FIRST_USER_FD}

(* C13: in every reachable state next_vfd >= 3, and next_vfd is greater    *)
(* than every key >= 3 of the mapping and than every member of the free    *)
(* set.                                                                    *)
C13_NextAboveAll ==
    \A i \in Tables :
        /\ tabs[i].next_vfd >= FIRST_USER_FD
        /\ \A k \in Keys(tabs[i]) : k >= FIRST_USER_FD => k < tabs[i].next_vfd
        /\ \A v \in Free(tabs[i]) : v < tabs[i].next_vfd

(* C14: deallocate(v) on a VFD in the mapping removes v, returns the entry *)
(* that was there, adds v to the free set if and only if v >= 3, leaves    *)
(* next_vfd and every other key's entry unchanged, and afterwards          *)
(* translate(v) and get(v) return none.                                    *)
C14_DeallocatePresent ==
    \A i \in Tables, v \in EdgeArgs :
        v \in Keys(tabs[i]) =>
            LET r == deallocate(tabs[i], v) IN
            /\ ~r.panicked
            /\ r.ret = Some(tabs[i].entries[v])
            /\ Keys(r.inner) = Keys(tabs[i]) \ {v}
            /\ \A k \in Keys(r.inner) : r.inner.entries[k] = tabs[i].entries[k]
            /\ r.inner.free_fds = IF v >= FIRST_USER_FD
                                  THEN tabs[i].free_fds (+) SetToBag({v})
                                  ELSE tabs[i].free_fds
            /\ (v \in Free(r.inner)) = (v >= FIRST_USER_FD)
            /\ r.inner.next_vfd = tabs[i].next_vfd
            /\ translate(r.inner, v) = None
            /\ get(r.inner, v) = None

\* deallocate has just returned the virtual entry of a user descriptor,
\* which is now free, while stdin had been closed before
C14_Witness ==
    /\ last.op = "deallocate"
    /\ IsSome(last.ret)
    /\ Unwrap(last.ret).kind = "Virtual"
    /\ Free(tabs[1]) # {}
    /\ STDIN_FILENO \notin Keys(tabs[1])

(* C15, as claimed: after deallocate(v) with v >= 3, the very next         *)
(* allocate returns v.                                                     *)
C15_FreedIsNext ==
    \A i \in Tables, v \in EdgeArgs, e \in EntryArgs :
        (v >= FIRST_USER_FD /\ v \in Keys(tabs[i])) =>
            allocate(deallocate(tabs[i], v).inner, e).ret = Some(v)

(* C15, amended: after deallocate(v) with v >= 3, the very next allocate   *)
(* returns the smallest member of the free set: v when no smaller VFD was  *)
(* free already, and otherwise that smaller VFD.                           *)
C15_FreedOrLowerIsNext ==
    \A i \in Tables, v \in EdgeArgs, e \in EntryArgs :
        (v >= FIRST_USER_FD /\ v \in Keys(tabs[i])) =>
            LET a == allocate(deallocate(tabs[i], v).inner, e)
                lower == {f \in Free(tabs[i]) : f < v}
            IN /\ ~a.panicked
               /\ lower = {} => a.ret = Some(v)
               /\ lower # {} => a.ret = Some(SetMin(lower))

\* two user descriptors were freed and allocate has handed out the lower one
C15_Witness ==
    /\ last.op = "allocate"
    /\ last.ret = Some(FIRST_USER_FD)
    /\ (FIRST_USER_FD + 1) \in Free(tabs[1])
    /\ tabs[1].next_vfd > FIRST_USER_FD + 1

(* C16: in every reachable state allocate and duplicate never return 0, 1  *)
(* or 2, also after 0, 1 or 2 has been deallocated, and after such a       *)
(* deallocate the next allocate returns 3 if 3 is not in the mapping.      *)
(* Stated of every state of the table and of the state that one more       *)
(* allocate_at leaves behind.                                              *)
StdReturns == {Some(k) : k \in StdKeys}

NeverStd(inner) ==
    /\ \A e \in EntryArgs : allocate(inner, e).ret \notin StdReturns
    /\ \A v \in EdgeArgs : duplicate(inner, v).ret \notin StdReturns

StdNotReused(inner) ==
    /\ NeverStd(inner)
    /\ \A k \in StdKeys \cap Keys(inner) :
          LET d == deallocate(inner, k).inner IN
          /\ NeverStd(d)
          /\ FIRST_USER_FD \notin Keys(d) =>
                \A e \in EntryArgs : allocate(d, e).ret = Some(FIRST_USER_FD)

C16_StdNeverHandedOut ==
    \A i \in Tables :
        /\ StdNotReused(tabs[i])
        /\ \A v \in EdgeArgs, e \in EntryArgs :
              StdNotReused(allocate_at(tabs[i], v, e, build).inner)

(* C17: in every reachable state translate(v) returns Some(k) if and only  *)
(* if v is in the mapping with a passthrough entry of kernel_fd k; it       *)
(* returns none for a virtual entry and for an absent VFD.                 *)
C17_TranslatePassthrough ==
    \A i \in Tables, v \in EdgeArgs :
        LET r == translate(tabs[i], v) IN
        IF v \in Keys(tabs[i]) /\ tabs[i].entries[v].kind = "Passthrough"
        THEN r = Some(tabs[i].entries[v].kernel_fd)
        ELSE r = None

\* translate has just returned the kernel descriptor of a passthrough user
\* entry, in a table that also holds a virtual entry
C17_Witness ==
    /\ last.op = "translate"
    /\ last.ret = Some(100)
    /\ \E v \in Keys(tabs[1]) : tabs[1].entries[v].kind = "Virtual"

(* C18: in every reachable state and for every entry e, v = allocate(e)    *)
(* followed at once by deallocate(v) returns e and leaves the mapping as   *)
(* it was before the allocate.                                             *)
C18_AllocateDeallocateRoundTrip ==
    \A i \in Tables, e \in EntryArgs :
        LET a == allocate(tabs[i], e) IN
        ~a.panicked =>
            LET d == deallocate(a.inner, Unwrap(a.ret)) IN
            /\ d.ret = Some(e)
            /\ d.inner.entries = tabs[i].entries

(* C19: with no concurrent operation, duplicate(old) returns none and      *)
(* leaves the table unchanged when old is absent; when old is present it   *)
(* returns Some(n) with n the lowest VFD >= 3 not in the mapping, n # old, *)
(* the entry at n equal to the entry at old, and the entry at old          *)
(* unchanged.                                                              *)
C19_DuplicateSequential ==
    \A i \in Tables, old \in EdgeArgs :
        LET r == duplicate(tabs[i], old) IN
        IF old \notin Keys(tabs[i])
        THEN r.ret = None /\ r.inner = tabs[i]
        ELSE ~r.panicked =>
                /\ r.ret = lowest_available(Keys(tabs[i]))
                /\ Unwrap(r.ret) # old
                /\ MapGet(r.inner.entries, Unwrap(r.ret)) = Some(tabs[i].entries[old])
                /\ MapGet(r.inner.entries, old) = Some(tabs[i].entries[old])

(* C20: duplicate_at(old, new) with old absent from the mapping returns    *)
(* none and leaves the mapping, the free set and next_vfd unchanged, for   *)
(* every new.                                                              *)
C20_DuplicateAtAbsent ==
    \A i \in Tables, old \in EdgeArgs, nw \in EdgeArgs :
        old \notin Keys(tabs[i]) =>
            LET r == duplicate_at(tabs[i], old, nw, build) IN
            /\ ~r.panicked
            /\ r.ret = None
            /\ r.inner.entries = tabs[i].entries
            /\ r.inner.free_fds = tabs[i].free_fds
            /\ r.inner.next_vfd = tabs[i].next_vfd

\* duplicate_at has just returned none for an absent old: had old been
\* present, the mapping would hold a copy outside the standard entries, or a
\* copy in place of one of them. The free set still holds a descriptor.
C20_Witness ==
    /\ last.op = "duplicate_at"
    /\ last.ret = None
    /\ Keys(tabs[1]) = StdKeys
    /\ \A k \in StdKeys : tabs[1].entries[k] = StdEntry(k)
    /\ Free(tabs[1]) # {}

----------------------------------------------------------------------------
(* C21: with no concurrent operation, duplicate_at(old, new) with old      *)
(* present has the effect and the return value of allocate_at(new, copy of *)
(* the entry at old): when it returns, the entry at new is the entry that  *)
(* was at old, the value returned is the entry that was at new (none if    *)
(* new was absent), and the gaps of [next_vfd, new) are in the free set.   *)
C21_DuplicateAtIsAllocateAt ==
    \A i \in Tables, old \in EdgeArgs, nw \in EdgeArgs :
        old \in Keys(tabs[i]) =>
            LET r == duplicate_at(tabs[i], old, nw, build)
                copy == tabs[i].entries[old]
            IN /\ r = allocate_at(tabs[i], nw, copy, build)
               /\ ~r.panicked =>
                     /\ MapGet(r.inner.entries, nw) = Some(copy)
                     /\ r.ret = MapGet(tabs[i].entries, nw)
                     /\ nw >= tabs[i].next_vfd =>
                           \A g \in GapsBelow(tabs[i], nw) : g \in Free(r.inner)

\* duplicate_at has just copied stdin above next_vfd: the copy is the only
\* user entry and the gap below it is free
C21_Witness ==
    /\ last.op = "duplicate_at"
    /\ last.ret = None
    /\ Keys(tabs[1]) = StdKeys \cup {FIRST_USER_FD + 1}
    /\ tabs[1].entries[FIRST_USER_FD + 1] = StdEntry(STDIN_FILENO)
    /\ Free(tabs[1]) = {FIRST_USER_FD}

----------------------------------------------------------------------------
(* The replay harness (repro::run_case, prop_fdtable_allocation_semantics) *)
(* keeps, for each live table, a map from the user descriptors to their    *)
(* kernel fds, and compares every return value and every translate with    *)
(* it. ModelOf is that map read off a table; the Step operators are the    *)
(* arms of its `match op`, each TRUE when the harness reports no mismatch. *)

\* the harness allocates passthrough entries only (mk_entry)
HarnessEntries == {e \in EntryArgs : e.kind = "Passthrough"}
HarnessTable(inner) ==
    \A v \in Keys(inner) : inner.entries[v].kind = "Passthrough"

ModelOf(inner) ==
    [v \in {k \in Keys(inner) : k >= FIRST_USER_FD} |-> Unwrap(translate(inner, v))]

\* Option<FdEntry>::and_then(|e| e.kernel_fd())
AndThenKernelFd(o) == IF IsSome(o) THEN kernel_fd(Unwrap(o)) ELSE None

\* assert_model_matches
ModelMatches(inner, model) ==
    \A v \in FIRST_USER_FD..IntMax : translate(inner, v) = MapGet(model, v)

AllocateStep(inner, model, e) ==
    LET r == allocate(inner, e) IN
    /\ ~r.panicked
    /\ r.ret = lowest_available(DOMAIN model)
    /\ ModelMatches(r.inner, MapInsert(model, Unwrap(r.ret), e.kernel_fd))

AllocateMinStep(inner, model, min_fd, e) ==
    LET r == allocate_min(inner, min_fd, e) IN
    /\ ~r.panicked
    /\ r.ret = lowest_available_min(DOMAIN model, min_fd)
    /\ ModelMatches(r.inner, MapInsert(model, Unwrap(r.ret), e.kernel_fd))

AllocateAtStep(inner, model, target, e, bld) ==
    LET r == allocate_at(inner, target, e, bld) IN
    /\ ~r.panicked
    /\ AndThenKernelFd(r.ret) = MapGet(model, target)
    /\ ModelMatches(r.inner, MapInsert(model, target, e.kernel_fd))

DeallocateStep(inner, model, target) ==
    LET r == deallocate(inner, target) IN
    /\ ~r.panicked
    /\ AndThenKernelFd(r.ret) = MapGet(model, target)
    /\ ModelMatches(r.inner, MapRemove(model, target))

DuplicateStep(inner, model, src) ==
    LET r == duplicate(inner, src) IN
    /\ ~r.panicked
    /\ IsSome(r.ret) = contains_key(model, src)
    /\ IsSome(r.ret) =>
          /\ r.ret = lowest_available(DOMAIN model)
          /\ ModelMatches(r.inner, MapInsert(model, Unwrap(r.ret), model[src]))
    /\ ~IsSome(r.ret) => ModelMatches(r.inner, model)

DuplicateAtStep(inner, model, src, dst, bld) ==
    LET r == duplicate_at(inner, src, dst, bld) IN
    /\ ~r.panicked
    /\ contains_key(model, src) =>
          /\ AndThenKernelFd(r.ret) = MapGet(model, dst)
          /\ ModelMatches(r.inner, MapInsert(model, dst, model[src]))
    /\ ~contains_key(model, src) =>
          /\ r.ret = None
          /\ ModelMatches(r.inner, model)

\* the table has a free user descriptor at or above min_fd: the harness,
\* with at most a few hundred calls, never exhausts the range
HasRoom(inner, min_fd) ==
    \E fd \in Max(FIRST_USER_FD, min_fd)..(IntMax - 1) : fd \notin Keys(inner)

\* every arm of the harness, from table `inner` with the descriptor
\* arguments drawn from `range`, agrees with the model
Refines(inner, range, bld) ==
    LET model == ModelOf(inner) IN
    /\ ModelMatches(inner, model)
    /\ \A e \in HarnessEntries :
          /\ HasRoom(inner, FIRST_USER_FD) => AllocateStep(inner, model, e)
          /\ \A v \in range :
                /\ HasRoom(inner, v) => AllocateMinStep(inner, model, v, e)
                /\ AllocateAtStep(inner, model, v, e, bld)
    /\ \A v \in range :
          /\ DeallocateStep(inner, model, v)
          /\ HasRoom(inner, FIRST_USER_FD) => DuplicateStep(inner, model, v)
          /\ \A w \in range : DuplicateAtStep(inner, model, v, w, bld)

(* C22: every table of passthrough entries, and its deep clone, agrees     *)
(* with the reference model (a map from user VFDs to kernel fds with the   *)
(* lowest-available rule) on every call of allocate, allocate_min(min >=   *)
(* 3), allocate_at(v >= 3), deallocate, duplicate and duplicate_at: the    *)
(* return value is the model's and afterwards translate(v) is the model's  *)
(* lookup for every v >= 3.                                                *)
C22_RefinesModel ==
    \A i \in Tables :
        HarnessTable(tabs[i]) =>
            /\ Refines(tabs[i], FIRST_USER_FD..IntMax, build)
            /\ Refines(deep_clone(tabs[i]), FIRST_USER_FD..IntMax, build)

\* the steps the property test draws (ops_strategy): descriptor arguments
\* below i32::MAX
HarnessRangeRefines ==
    \A i \in Tables :
        HarnessTable(tabs[i]) =>
            /\ Refines(tabs[i], FIRST_USER_FD..(IntMax - 1), build)
            /\ Refines(deep_clone(tabs[i]), FIRST_USER_FD..(IntMax - 1), build)

----------------------------------------------------------------------------
(* C23: the table new() builds has exactly the keys 0, 1, 2, each a        *)
(* passthrough entry whose kernel fd is the key, next_vfd = 3 and an empty *)
(* free set; the first allocate on it returns 3 and the second returns 4.  *)
C23_NewTable ==
    last.op = "new" =>
        \A i \in Tables :
            /\ Keys(tabs[i]) = {0, 1, 2}
            /\ \A k \in Keys(tabs[i]) :
                  /\ tabs[i].entries[k].kind = "Passthrough"
                  /\ kernel_fd(tabs[i].entries[k]) = Some(k)
            /\ tabs[i].next_vfd = 3
            /\ tabs[i].free_fds = EmptyBag
            /\ \A e1 \in EntryArgs, e2 \in EntryArgs :
                  LET first == allocate(tabs[i], e1)
                      second == allocate(first.inner, e2)
                  IN /\ Outcome(first) = <<Some(3), FALSE>>
                     /\ Outcome(second) = <<Some(4), FALSE>>

\* the second allocate on a new table has just returned 4
C23_Witness ==
    /\ last.op = "allocate"
    /\ last.ret = Some(4)
    /\ Keys(tabs[1]) = 0..4
    /\ tabs[1].next_vfd = 5
    /\ tabs[1].free_fds = EmptyBag

----------------------------------------------------------------------------
(* C24: in every reachable state every key of the mapping is non-negative  *)
(* and every key other than 0, 1, 2 lies in [3, INT_MAX): no call installs *)
(* an entry at a negative VFD or at INT_MAX.                               *)
C24_KeysInRange ==
    \A i \in Tables : \A k \in Keys(tabs[i]) :
        /\ k >= 0
        /\ k \notin StdKeys => k \in FIRST_USER_FD..(IntMax - 1)

----------------------------------------------------------------------------
\* the three fields of the inner state a caller's panic could have touched
Fields(inner) == <<inner.entries, inner.free_fds, inner.next_vfd>>

\* the exhaustion contract for the minimums in `mins`
ExhaustionOnly(inner, mins) ==
    /\ \A e \in EntryArgs :
          LET r == allocate(inner, e) IN
          /\ r.panicked <=> ~HasRoom(inner, FIRST_USER_FD)
          /\ r.panicked => Fields(r.inner) = Fields(inner)
    /\ \A m \in mins, e \in EntryArgs :
          LET r == allocate_min(inner, m, e) IN
          /\ r.panicked <=> ~HasRoom(inner, m)
          /\ r.panicked => Fields(r.inner) = Fields(inner)

(* C25: allocate aborts exactly when no VFD of [3, INT_MAX) is absent from *)
(* the mapping, allocate_min(min) aborts exactly when no VFD of            *)
(* [max(3, min), INT_MAX) is absent from it, and an allocation that aborts *)
(* has changed neither the mapping, nor the free set, nor next_vfd.        *)
C25_ExhaustionOnly ==
    \A i \in Tables : ExhaustionOnly(tabs[i], EdgeArgs)

----------------------------------------------------------------------------
(* C26: next_vfd never overflows: in every reachable state                 *)
(* 3 <= next_vfd <= INT_MAX, and no allocate_at or duplicate_at, with      *)
(* INT_MAX as the VFD included, ends in an arithmetic panic or wraps       *)
(* next_vfd around.                                                        *)
C26_NextVfdNoOverflow ==
    /\ \A i \in Tables : tabs[i].next_vfd \in FIRST_USER_FD..IntMax
    /\ last.op \in {"allocate_at", "duplicate_at"} => ~last.panicked

----------------------------------------------------------------------------
(* C27: the inner state a panicking operation leaves behind its poisoned   *)
(* guard satisfies the table invariants: the mapping and the free set are  *)
(* disjoint, every member of the free set is below next_vfd, and every v   *)
(* of [3, next_vfd) is in the mapping or in the free set.                  *)
C27_PoisonedKeepsInvariants ==
    \A i \in Tables :
        tabs[i].poisoned =>
            /\ Keys(tabs[i]) \cap Free(tabs[i]) = {}
            /\ \A f \in Free(tabs[i]) : f < tabs[i].next_vfd
            /\ \A v \in FIRST_USER_FD..(tabs[i].next_vfd - 1) :
                  v \in Keys(tabs[i]) \cup Free(tabs[i])

----------------------------------------------------------------------------
(* C28: under any interleaving of the threads that share a table, a        *)
(* duplicate(old) that returns Some(n) has n # old, and at the moment it   *)
(* returns both old and n are in the mapping with equal entries.           *)
C28_DuplicateUnderInterleaving ==
    [][\A t \in Threads :
          (pc[t].outer = "duplicate" /\ pc'[t] = Idle /\ IsSome(last'.ret)) =>
              LET n == Unwrap(last'.ret)
                  old == pc[t].a
                  after == tabs'[TableOf(t)]
              IN /\ n # old
                 /\ old \in Keys(after)
                 /\ n \in Keys(after)
                 /\ after.entries[n] = after.entries[old]]_vars

----------------------------------------------------------------------------
\* a copy of v is put on the free heap of table i by the step
Enters(i, v) == CopiesIn(v, tabs'[i].free_fds) > CopiesIn(v, tabs[i].free_fds)

\* the step is a deallocate that released the key v
ReleasedBy(i, v) ==
    /\ last'.op = "deallocate"
    /\ v \in Keys(tabs[i])
    /\ v \notin Keys(tabs'[i])

\* the step is an allocation whose gap loop passed the unmapped v, which
\* next_vfd had not reached
SkippedBy(i, v) ==
    /\ last'.op \in {"allocate_min", "allocate_at", "duplicate_at"}
    /\ v >= FIRST_USER_FD
    /\ tabs[i].next_vfd <= v
    /\ v \notin Keys(tabs[i]) \cup Keys(tabs'[i])

(* C29: a VFD enters the free set only when a deallocate releases it from  *)
(* the mapping, so that every member of the free set was allocated first.  *)
C29_FreeOnlyReleased ==
    [][\A i \in Tables : \A v \in IntMin..IntMax :
          Enters(i, v) => ReleasedBy(i, v)]_vars

(* C29, amended: a VFD enters the free set only when a deallocate releases *)
(* it from the mapping (v >= 3), or when the gap loop of allocate_min,     *)
(* allocate_at or duplicate_at passes it: then v >= 3 is at or above the   *)
(* next_vfd of before the call and is not in the mapping.                  *)
C29_FreeReleasedOrSkipped ==
    [][\A i \in Tables : \A v \in IntMin..IntMax :
          Enters(i, v) =>
              \/ v >= FIRST_USER_FD /\ ReleasedBy(i, v)
              \/ SkippedBy(i, v)]_vars

\* allocate_at(4, e) on a new table has put the skipped 3 on the free set
C29_Witness ==
    /\ last.op = "allocate_at"
    /\ last.ret = None
    /\ Keys(tabs[1]) = StdKeys \cup {FIRST_USER_FD + 1}
    /\ tabs[1].free_fds = SetToBag({FIRST_USER_FD})
    /\ tabs[1].next_vfd = FIRST_USER_FD + 2

----------------------------------------------------------------------------
(* C30: next_vfd is a monotonic high-water mark: no call on a table makes  *)
(* its next_vfd smaller, so a VFD v >= 3 that has been below next_vfd      *)
(* stays below it.                                                         *)
C30_NextVfdMonotonic ==
    [][\A i \in Tables :
          /\ tabs'[i].next_vfd >= tabs[i].next_vfd
          /\ \A v \in FIRST_USER_FD..IntMax :
                v < tabs[i].next_vfd => v < tabs'[i].next_vfd]_vars

----------------------------------------------------------------------------
\* the entry stored at key k is the same in the two inner states
SameEntryAt(before, after, k) ==
    /\ k \in Keys(after)
    /\ after.entries[k] = before.entries[k]

(* C31: the entry stored at a key k changes or disappears only through     *)
(* allocate_at(k, _), duplicate_at(_, k) or deallocate(k): allocate,       *)
(* allocate_min, duplicate, deep_clone and the calls that target another   *)
(* key leave the entry at k as it is.                                      *)
C31_EntriesImmutable ==
    \A i \in Tables : \A k \in Keys(tabs[i]) :
        /\ SameEntryAt(tabs[i], deep_clone(tabs[i]), k)
        /\ \A e \in EntryArgs : SameEntryAt(tabs[i], allocate(tabs[i], e).inner, k)
        /\ \A m \in EdgeArgs, e \in EntryArgs :
              SameEntryAt(tabs[i], allocate_min(tabs[i], m, e).inner, k)
        /\ \A old \in EdgeArgs : SameEntryAt(tabs[i], duplicate(tabs[i], old).inner, k)
        /\ \A w \in EdgeArgs \ {k} :
              /\ SameEntryAt(tabs[i], deallocate(tabs[i], w).inner, k)
              /\ \A e \in EntryArgs :
                    SameEntryAt(tabs[i], allocate_at(tabs[i], w, e, build).inner, k)
              /\ \A old \in EdgeArgs :
                    SameEntryAt(tabs[i], duplicate_at(tabs[i], old, w, build).inner, k)

----------------------------------------------------------------------------
(* C32: translate(v) and get(v) are read-only for every v: a call of       *)
(* either leaves the mapping, the free set and next_vfd of every table as  *)
(* they were, and get(v) returns a copy of the entry at v, or none if v is *)
(* absent.                                                                 *)
C32_InspectionReadOnly ==
    /\ [](\A i \in Tables : \A v \in EdgeArgs :
             get(tabs[i], v) = IF v \in Keys(tabs[i])
                               THEN Some(tabs[i].entries[v]) ELSE None)
    /\ [][last'.op \in {"translate", "get"} =>
             /\ tabs' = tabs
             /\ last'.op = "get" =>
                   \E v \in VfdArgs : last'.ret = get(tabs[last'.tbl], v)]_vars

\* get has just returned the entry at 4 of a table with a free descriptor
C32_Witness ==
    /\ last.op = "get"
    /\ FIRST_USER_FD + 1 \in Keys(tabs[1])
    /\ last.ret = Some(tabs[1].entries[FIRST_USER_FD + 1])
    /\ Free(tabs[1]) = {FIRST_USER_FD}

----------------------------------------------------------------------------
(* C33: a poisoned guard never makes the table fail: on a table whose      *)
(* guard is poisoned, Debug formatting goes on with the inner state as it  *)
(* is instead of panicking, as the other entry points do.                  *)
C33_PoisonNeverFails ==
    /\ \A i \in Tables : tabs[i].poisoned => ~fmt(tabs[i]).panicked
    /\ last.op = "fmt" => ~last.panicked

----------------------------------------------------------------------------
(* C34: deallocate(v) on a VFD that is absent from the mapping returns     *)
(* none and leaves the mapping, the free set and next_vfd unchanged: a     *)
(* second deallocate of the same VFD does not put it on the free set       *)
(* again, and the allocate that follows returns what it would have         *)
(* returned without the call.                                              *)
C34_DeallocateAbsent ==
    \A i \in Tables : \A v \in EdgeArgs :
        LET first == deallocate(tabs[i], v)
            second == deallocate(first.inner, v)
        IN /\ v \notin Keys(tabs[i]) =>
                 /\ first = Returned(tabs[i], None)
                 /\ \A e \in EntryArgs :
                       allocate(first.inner, e) = allocate(tabs[i], e)
           /\ second = Returned(first.inner, None)
           /\ CopiesIn(v, second.inner.free_fds) = CopiesIn(v, first.inner.free_fds)

\* a deallocate of the absent 3 has returned none: 3 is on the free set
\* once, from the deallocate that released it
C34_Witness ==
    /\ last.op = "deallocate"
    /\ last.ret = None
    /\ Keys(tabs[1]) = StdKeys
    /\ tabs[1].free_fds = SetToBag({FIRST_USER_FD})
    /\ tabs[1].next_vfd = FIRST_USER_FD + 1

----------------------------------------------------------------------------
(* C35: the free set never holds the same VFD twice, and two allocate      *)
(* calls with no release in between never return the same VFD.             *)
C35_FreeNoDuplicates ==
    \A i \in Tables :
        /\ \A v \in DOMAIN tabs[i].free_fds : CopiesIn(v, tabs[i].free_fds) <= 1
        /\ \A e1 \in EntryArgs, e2 \in EntryArgs :
              LET first == allocate(tabs[i], e1)
                  second == allocate(first.inner, e2)
              IN (~first.panicked /\ ~second.panicked) => first.ret # second.ret

----------------------------------------------------------------------------
\* thread t returns from a call of allocate, allocate_min or duplicate
\* with a descriptor
ReturnsFd(t) ==
    /\ pc[t].outer \in {"allocate", "allocate_min", "duplicate"}
    /\ pc[t].at = "locked"
    /\ pc'[t] = Idle
    /\ IsSome(last'.ret)

(* C36: under any interleaving of the threads that share a table, the VFD  *)
(* that allocate, allocate_min or duplicate returns was not in the mapping *)
(* when the call installed its entry, and the call changed no other entry: *)
(* no two calls return the same VFD unless it was removed in between, and  *)
(* no allocation overwrites an entry installed by another thread.          *)
C36_NoSharedVfd ==
    [][\A t \in Threads :
          ReturnsFd(t) =>
              LET n == Unwrap(last'.ret)
                  before == tabs[TableOf(t)]
                  after == tabs'[TableOf(t)]
              IN /\ n \notin Keys(before)
                 /\ Keys(after) = Keys(before) \cup {n}
                 /\ \A k \in Keys(before) : after.entries[k] = before.entries[k]]_vars

\* both threads hold a descriptor of the shared table: thread 2 has just
\* been given 4 while the 3 of thread 1 is in use
C36_Witness ==
    /\ last.op \in {"allocate", "allocate_min", "duplicate"}
    /\ last.by = 2
    /\ last.ret = Some(FIRST_USER_FD + 1)
    /\ TableOf(1) = TableOf(2)
    /\ Keys(tabs[TableOf(2)]) = StdKeys \cup {FIRST_USER_FD, FIRST_USER_FD + 1}

----------------------------------------------------------------------------
(* C37: duplicate_at(v, v) with v present returns the entry at v and       *)
(* leaves the table as it was: the same mapping, the same free set, the    *)
(* same next_vfd and the same result of the next allocate.                 *)
C37_DuplicateAtSelf ==
    \A i \in Tables : \A v \in Keys(tabs[i]) :
        LET r == duplicate_at(tabs[i], v, v, build) IN
        /\ Outcome(r) = <<Some(tabs[i].entries[v]), FALSE>>
        /\ Fields(r.inner) = Fields(tabs[i])
        /\ \A e \in EntryArgs :
              Outcome(allocate(r.inner, e)) = Outcome(allocate(tabs[i], e))

----------------------------------------------------------------------------
\* the guards thread t holds
HeldBy(t) == {i \in Tables : guard[i] = t}

----------------------------------------------------------------------------
\* allocate gets to its fallback scan: nothing on the free list and
\* next_vfd at the ceiling
AtFallback(inner) == HeapIsEmpty(inner.free_fds) /\ inner.next_vfd = IntMax

(* C39: in every reachable state where allocate reaches its fallback scan  *)
(* (the free set is empty and next_vfd = INT_MAX) no VFD of [3, INT_MAX)   *)
(* is absent from the mapping: the scan yields nothing and allocate ends   *)
(* in the exhaustion abort.                                                *)
C39_FallbackAborts ==
    \A i \in Tables :
        AtFallback(tabs[i]) =>
            /\ ~HasRoom(tabs[i], FIRST_USER_FD)
            /\ \A e \in EntryArgs :
                  /\ allocate(tabs[i], e).panicked
                  /\ Fields(allocate(tabs[i], e).inner) = Fields(tabs[i])

\* allocate has gone through the fallback scan of a full table and aborted
C39_Witness ==
    /\ last.op = "allocate"
    /\ last.panicked
    /\ AtFallback(tabs[1])
    /\ Keys(tabs[1]) = 0..(IntMax - 1)

====
